---- MODULE Spec2Model ----
(***************************************************************************)
(* A model of three parts of the repository:                               *)
(*   - the schema collection editor FormBuilder                            *)
(*     (packages/features/form-builder/FormBuilder.tsx, lines 42-459),     *)
(*   - the component dispatcher ComponentForField (same file, 509-656),    *)
(*   - the request guard chain (packages/trpc/server/trpc.ts).             *)
(* Each part has its own specification: Spec (the editor), SpecDispatch    *)
(* and SpecGuard.                                                          *)
(***************************************************************************)
EXTENDS Integers, Sequences, FiniteSets, TLC

VARIABLES
  fields,       \* useFieldArray's `fields`: the ordered collection
  fieldDialog,  \* useState({isOpen, fieldIndex})
  draft,        \* the values of fieldForm = useForm<RhfFormField>()
  sharedWith,   \* the key of the entry whose options array is the very
                \* array the draft's options hold, 0 when there is none
  crashed,      \* the component threw while handling an event or rendering
  optionEdits,  \* how many times the options editor has reported a change
  dField,       \* dispatcher: the field handed to ComponentForField
  dValue,       \* dispatcher: the value handed to ComponentForField
  dOut,         \* dispatcher: what ComponentForField did
  req,          \* guard chain: the request being served
  trace,        \* guard chain: the stages that have run for req, in order
  pending,      \* guard chain: the requests suspended at `await
                \* prisma.membership.findFirst`, each with its trace
  rlCount,      \* guard chain: the rate limiter's counter per user id
  rlSeen,       \* guard chain: per user id, what the rate-limit stage did
                \* with each of the user's requests of this interval
  memberships   \* guard chain: the membership table

vars == <<fields, fieldDialog, draft, sharedWith, crashed, optionEdits, dField, dValue, dOut,
          req, trace, pending, rlCount, rlSeen, memberships>>

editorVars   == <<fields, fieldDialog, draft, sharedWith, crashed, optionEdits>>
dispatchVars == <<dField, dValue, dOut>>
guardVars    == <<req, trace, pending, rlCount, rlSeen, memberships>>

(***************************************************************************)
(* Bounds of the model.                                                    *)
(***************************************************************************)
\* Entries added by the user that the collection holds at a time.
MaxAdded == 1
\* "Add an Option" is modelled up to this many options in the draft.
MaxOptions == 3
\* Changes the options editor reports over a run.
MaxOptionEdits == 2
\* The limit a rate-limited procedure is configured with.
RlLimit == 2
\* Requests that wait for the membership query at a time.
MaxPending == 1

(***************************************************************************)
(* JavaScript values.  A property that may be undefined is a sequence of   *)
(* length 0 (undefined) or 1 (the value).  String-valued properties use    *)
(* the string "undefined" for undefined.                                   *)
(***************************************************************************)
Nothing == <<>>
Just(x) == <<x>>
IsDefined(m) == m # Nothing
\* JavaScript truthiness of an optional boolean: undefined is falsy.
Truthy(m) == IsDefined(m) /\ m[1]
Undefined == "undefined"

(***************************************************************************)
(* Strings that the code transforms are sequences of one-character         *)
(* strings.                                                                *)
(***************************************************************************)
ToLowerChar(c) ==
  CASE c = "A" -> "a"
    [] c = "B" -> "b"
    [] c = "O" -> "o"
    [] OTHER   -> c

toLowerCase(s) == [i \in 1..Len(s) |-> ToLowerChar(s[i])]

IsSpace(c) == c = " "

RECURSIVE trimStart(_)
trimStart(s) ==
  IF s # <<>> /\ IsSpace(Head(s)) THEN trimStart(Tail(s)) ELSE s

RECURSIVE trimEnd(_)
trimEnd(s) ==
  IF s # <<>> /\ IsSpace(s[Len(s)])
  THEN trimEnd(SubSeq(s, 1, Len(s) - 1))
  ELSE s

trim(s) == trimEnd(trimStart(s))

(***************************************************************************)
(* The field type registry (FieldTypes, FormBuilder.tsx 53-130).           *)
(***************************************************************************)
FieldKinds ==
  {"name", "email", "phone", "text", "number", "textarea", "select",
   "multiselect", "multiemail", "radioInput", "checkbox", "radio", "boolean"}

FieldTypes ==
  [k \in FieldKinds |->
     [needsOptions |-> k \in {"select", "multiselect", "checkbox", "radio"},
      systemOnly   |-> k = "radioInput",
      isTextType   |-> k \in {"name", "email", "phone", "text", "number",
                              "textarea", "select", "multiemail"}]]

\* FieldTypes.find((f) => f.value === type): undefined when there is none.
HasFieldType(type) == type \in FieldKinds

\* options={FieldTypes.filter((f) => !f.systemOnly)}
PickerOptions == {k \in FieldKinds : ~FieldTypes[k].systemOnly}

EditabilityClasses == {"system", "system-but-optional", "user", "user-readonly"}

(***************************************************************************)
(* Field schema entries.  Modelled properties of RhfFormField: name,       *)
(* label, type, editable, hidden, required, options, sources, and the key  *)
(* `id` that useFieldArray gives every entry of `fields`.                  *)
(***************************************************************************)
Option(label, value) == [label |-> label, value |-> value]

\* The two options OptionsField shows for an unset list (157-166).
DefaultOptions ==
  << Option(<<"O", "p", "t", "i", "o", "n", " ", "1">>, <<"1">>),
     Option(<<"O", "p", "t", "i", "o", "n", " ", "2">>, <<"2">>) >>

\* value = value || [...]: an array, even the empty one, is truthy.
ShownOptions(value) == IF IsDefined(value) THEN value[1] ELSE DefaultOptions

\* fieldForm.reset({}): every property undefined.
EmptyDraft ==
  [id |-> 0, name |-> Undefined, label |-> Undefined, type |-> Undefined,
   editable |-> Undefined, hidden |-> Nothing, required |-> Nothing,
   options |-> Nothing, sources |-> Nothing]

\* What reading an index that holds no entry gives: undefined, whose every
\* property reads as undefined.
UndefinedEntry ==
  [id |-> 0, name |-> Undefined, label |-> Undefined, type |-> Undefined,
   editable |-> Undefined, hidden |-> Nothing, required |-> Nothing,
   options |-> Nothing, sources |-> Nothing]

\* sources: [{label: "User", type: "user", id: "user", fieldRequired}] (364-371)
UserSource(fieldRequired) ==
  [label |-> "User", type |-> "user", id |-> "user",
   fieldRequired |-> fieldRequired]

\* The source a system default carries.
DefaultSource ==
  [label |-> "Default", type |-> "default", id |-> "default",
   fieldRequired |-> Just(TRUE)]

\* A system default is labelled by its defaultLabel; its label is unset.
Seed(id, name, type, editable, required) ==
  [id |-> id, name |-> name, label |-> Undefined, type |-> type,
   editable |-> editable, hidden |-> Just(FALSE), required |-> Just(required),
   options |-> Nothing, sources |-> Just(<<DefaultSource>>)]

\* The collections the form can hold when the editor mounts: none, or the
\* system's pre-seeded fields (names pairwise distinct).
InitialCollections ==
  { <<>>,
    << Seed(1, "guests", "multiemail", "system-but-optional", FALSE) >>,
    << Seed(1, "name", "name", "system", TRUE),
       Seed(2, "title", "text", "user-readonly", FALSE) >> }

\* What the user types or picks in the dialog.
NameInputs  == {"name", "q1"}
LabelInputs == {"Q"}
RequiredInputs == BOOLEAN
TypeInputs  == {"text", "select"}
OptionLabelInputs == { <<" ", "A">> }

\* Entry at a 0-based index.
At(seq, i) == seq[i + 1]
InRange(seq, i) == i >= 0 /\ i < Len(seq)

\* useFieldArray keys every entry; a new entry gets a key no entry holds.
FreshId(flds) ==
  CHOOSE n \in 1..(Len(flds) + 1) : \A i \in 1..Len(flds) : flds[i].id # n

(***************************************************************************)
(* The editor's state as one record, and the handlers as functions on it.  *)
(***************************************************************************)
EditorState ==
  [fields |-> fields, fieldDialog |-> fieldDialog, draft |-> draft,
   sharedWith |-> sharedWith, crashed |-> crashed]

\* fields.map (261-269): rendering throws `Invalid field type` for an entry
\* whose type is not in FieldTypes.
Renders(flds) == \A i \in 1..Len(flds) : HasFieldType(flds[i].type)

\* The state a handler leaves is rendered: the component throws when an
\* entry cannot be rendered.
Becomes(st) ==
  /\ fields' = st.fields
  /\ fieldDialog' = st.fieldDialog
  /\ draft' = st.draft
  /\ sharedWith' = st.sharedWith
  /\ crashed' = (st.crashed \/ ~Renders(st.fields))

(***************************************************************************)
(* What the row of an entry and the dialog render as enabled controls.     *)
(***************************************************************************)
\* {field.editable !== "user-readonly" && (...)} (308): Switch, Edit, remove.
RowControlsShown(field) == field.editable # "user-readonly"

\* {field.editable !== "system" && <Switch .../>} (310)
SwitchShown(field) == RowControlsShown(field) /\ field.editable # "system"

\* The Edit button (318-324).
EditShown(field) == RowControlsShown(field)

\* {field.editable !== "system" && field.editable !== "system-but-optional"
\*   && <Button ... removeField(index) />} (325)
RemoveShown(field) ==
  /\ RowControlsShown(field)
  /\ field.editable # "system"
  /\ field.editable # "system-but-optional"

\* SelectField isDisabled (383-386).
TypeSelectDisabled(d) ==
  d.editable = "system" \/ d.editable = "system-but-optional"

\* InputField name disabled (402-405).
NameInputDisabled(d) ==
  d.editable = "system" \/ d.editable = "system-but-optional"

\* BooleanToggleGroupField disabled (438).
RequiredToggleDisabled(d) == d.editable = "system"

\* {fieldType?.needsOptions ? <Controller name="options" .../> : null}
\* with fieldType = FieldTypes.find(f => f.value === watch("type")) (251, 424).
OptionsEditorShown(d) == HasFieldType(d.type) /\ FieldTypes[d.type].needsOptions

\* The delete button of an option: value.length > 2 && !readOnly (190).
OptionDeleteShown(value) == Len(value) > 2

\* The browser refuses to submit while a required control is empty: the type
\* selector (382), the name input (399), the label input (410) and, when the
\* options editor is shown, the label input of every option (175-177).
RequiredInputsFilled(d) ==
  /\ d.type # Undefined
  /\ d.name # Undefined
  /\ d.label # Undefined
  /\ OptionsEditorShown(d) =>
       \A i \in 1..Len(ShownOptions(d.options)) :
         ShownOptions(d.options)[i].label # <<>>

(***************************************************************************)
(* useFieldArray's operations on the collection.                           *)
(***************************************************************************)
remove(flds, index) ==
  [k \in 1..(Len(flds) - 1) |-> IF k < index + 1 THEN flds[k] ELSE flds[k + 1]]

update(flds, index, data) == [flds EXCEPT ![index + 1] = data]

append(flds, field) == Append(flds, [field EXCEPT !.id = FreshId(flds)])

\* data[i] of a JavaScript array: undefined outside 0..length-1.
ArrayGet(flds, i) == IF InRange(flds, i) THEN At(flds, i) ELSE UndefinedEntry

\* data[i] = v: inside the array the position is replaced; at or past the
\* end the array grows up to position i, the positions in between reading as
\* undefined; a negative i sets a property that is no element of the array.
ArraySet(flds, i, v) ==
  IF InRange(flds, i) THEN [flds EXCEPT ![i + 1] = v]
  ELSE IF i < 0 THEN flds
  ELSE [k \in 1..(i + 1) |->
          IF k <= Len(flds) THEN flds[k]
          ELSE IF k = i + 1 THEN v ELSE UndefinedEntry]

\* Faulty variant, for mutation checking: the first position is overwritten
\* before it was saved, so both positions end with the same entry.
swapArrayAtNoTemp(flds, a, b) ==
  ArraySet(flds, a, ArrayGet(flds, b))

\* swap exchanges what the two indices hold.
swapArrayAt(flds, a, b) ==
  ArraySet(ArraySet(flds, b, ArrayGet(flds, a)), a, ArrayGet(flds, b))

(***************************************************************************)
(* The handlers of FormBuilder.                                            *)
(***************************************************************************)
\* fieldForm.reset(values) (232, 240): the form's values become a deep copy
\* of `values`, so they share no array with the object they were copied
\* from.
reset(st, values) == [st EXCEPT !.draft = values, !.sharedWith = 0]

\* addField (231-237)
addField(st) ==
  [reset(st, EmptyDraft) EXCEPT
     !.fieldDialog = [isOpen |-> TRUE, fieldIndex |-> -1]]

\* Faulty variant, for mutation checking: the entry itself becomes the
\* form's values, so the draft's options are the entry's own array.
editFieldNoCopy(st, index, data) ==
  [st EXCEPT !.draft = data,
             !.sharedWith = IF IsDefined(data.options) THEN data.id ELSE 0,
             !.fieldDialog = [isOpen |-> TRUE, fieldIndex |-> index]]

\* editField (239-245)
editField(st, index, data) ==
  [reset(st, data) EXCEPT
     !.fieldDialog = [isOpen |-> TRUE, fieldIndex |-> index]]

\* removeField (247-249)
removeField(st, index) == [st EXCEPT !.fields = remove(st.fields, index)]

\* onClick={() => swap(index, index - 1)} and swap(index, index + 1)
\* (275, 281), whatever the indices are.
swap(st, a, b) == [st EXCEPT !.fields = swapArrayAt(st.fields, a, b)]

\* onCheckedChange: update(index, {...field, hidden: !checked}) (313-315);
\* the Switch shows checked = !field.hidden and reports the flipped value.
onCheckedChange(st, index, checked) ==
  [st EXCEPT !.fields =
     update(st.fields, index,
            [At(st.fields, index) EXCEPT !.hidden = Just(~checked)])]

\* Dialog onOpenChange (347-351)
onOpenChange(st, isOpen) ==
  [st EXCEPT !.fieldDialog = [isOpen |-> isOpen, fieldIndex |-> -1]]

\* Faulty variant, for mutation checking: the appended entry keeps the
\* draft's unset editable.
NewFieldWithoutDefault(data) ==
  [data EXCEPT !.sources = Just(<<UserSource(data.required)>>)]

\* The entry a create-mode submit appends (362-373).
NewField(data) ==
  [data EXCEPT
     !.sources = Just(<<UserSource(data.required)>>),
     !.editable = IF data.editable = Undefined THEN "user" ELSE data.editable]

\* Faulty variant, for mutation checking: the submit defaults editable to
\* "user" before it looks at the mode.
handleSubmitStampsFirst(st, data) ==
  [st EXCEPT
     !.fields = IF st.fieldDialog.fieldIndex # -1
                THEN update(st.fields, st.fieldDialog.fieldIndex,
                            [data EXCEPT !.editable = "user"])
                ELSE append(st.fields, [data EXCEPT
                       !.sources = Just(<<UserSource(data.required)>>),
                       !.editable = "user"]),
     !.fieldDialog = [isOpen |-> FALSE, fieldIndex |-> -1]]

\* handleSubmit (358-380)
handleSubmit(st, data) ==
  [st EXCEPT
     !.fields = IF st.fieldDialog.fieldIndex # -1
                THEN update(st.fields, st.fieldDialog.fieldIndex, data)
                ELSE append(st.fields, NewField(data)),
     !.fieldDialog = [isOpen |-> FALSE, fieldIndex |-> -1]]

\* SelectField onChange: fieldForm.setValue("type", value) (387-393)
setType(st, value) == [st EXCEPT !.draft.type = value]

\* register("name") (400)
setName(st, value) == [st EXCEPT !.draft.name = value]

\* register("label") (409)
setLabel(st, value) == [st EXCEPT !.draft.label = value]

\* Controller name="required": onChange(val) (432-447)
setRequired(st, val) == [st EXCEPT !.draft.required = Just(val)]

(***************************************************************************)
(* OptionsField (143-225), bound to the draft's `options` (425-430).       *)
(* Option indices are 0-based as in the code.                              *)
(***************************************************************************)
\* value.splice(index, 1, {label, value: label.toLowerCase().trim()})
spliceOption(value, index, text) ==
  [value EXCEPT ![index + 1] = Option(text, trim(toLowerCase(text)))]

\* The array `value` the options editor was given now reads `list`: the
\* editor changed it in place (splice, push) and handed it to onChange.  An
\* entry whose options are that same array reads `list` too.
changedInPlace(st, list) ==
  [st EXCEPT
     !.draft.options = Just(list),
     !.fields = [k \in 1..Len(st.fields) |->
                   IF st.sharedWith # 0 /\ st.fields[k].id = st.sharedWith
                   THEN [st.fields[k] EXCEPT !.options = Just(list)]
                   ELSE st.fields[k]]]

\* Input onChange (178-186): value.splice(index, 1, {...}); onChange(value).
onLabelChange(st, index, text) ==
  changedInPlace(st, spliceOption(ShownOptions(st.draft.options), index, text))

\* The X button (197-204): a copy without the option, a new array.
onOptionDelete(st, index) ==
  [st EXCEPT !.draft.options =
               Just(remove(ShownOptions(st.draft.options), index)),
             !.sharedWith = 0]

\* "Add an Option" (214-217): value.push({label: "", value: ""});
\* onChange(value).
onOptionAdd(st) ==
  changedInPlace(st, Append(ShownOptions(st.draft.options), Option(<<>>, <<>>)))

(***************************************************************************)
(* The editor's actions: one per control.  The dialog is modal, so the     *)
(* rows' controls act only while it is closed.                             *)
(***************************************************************************)
RowsUsable == ~crashed /\ ~fieldDialog.isOpen
DialogUsable == ~crashed /\ fieldDialog.isOpen

IdleDispatch == dField = Nothing /\ dValue = Nothing /\ dOut = "none"
IdleGuard ==
  /\ req = Nothing
  /\ trace = <<>>
  /\ pending = <<>>
  /\ rlCount = <<>>
  /\ rlSeen = <<>>
  /\ memberships = {}

\* The entries the user added: those a create-mode submit stamped.
Added(flds) ==
  {i \in 1..Len(flds) :
     IsDefined(flds[i].sources) /\ flds[i].sources[1][1].type = "user"}

AddField ==
  /\ RowsUsable
  /\ Cardinality(Added(fields)) < MaxAdded
  /\ Becomes(addField(EditorState))
  /\ UNCHANGED <<optionEdits, dispatchVars, guardVars>>

EditField ==
  \E index \in 0..(Len(fields) - 1) :
    /\ RowsUsable
    /\ EditShown(At(fields, index))
    /\ Becomes(editField(EditorState, index, At(fields, index)))
    /\ UNCHANGED <<optionEdits, dispatchVars, guardVars>>

RemoveField ==
  \E index \in 0..(Len(fields) - 1) :
    /\ RowsUsable
    /\ RemoveShown(At(fields, index))
    /\ Becomes(removeField(EditorState, index))
    /\ UNCHANGED <<optionEdits, dispatchVars, guardVars>>

ToggleHidden ==
  \E index \in 0..(Len(fields) - 1) :
    /\ RowsUsable
    /\ SwitchShown(At(fields, index))
    /\ Becomes(onCheckedChange(EditorState, index,
                               Truthy(At(fields, index).hidden)))
    /\ UNCHANGED <<optionEdits, dispatchVars, guardVars>>

SwapUp ==
  \E index \in 0..(Len(fields) - 1) :
    /\ RowsUsable
    /\ Becomes(swap(EditorState, index, index - 1))
    /\ UNCHANGED <<optionEdits, dispatchVars, guardVars>>

SwapDown ==
  \E index \in 0..(Len(fields) - 1) :
    /\ RowsUsable
    /\ Becomes(swap(EditorState, index, index + 1))
    /\ UNCHANGED <<optionEdits, dispatchVars, guardVars>>

SetType ==
  \E value \in TypeInputs \cap PickerOptions :
    /\ DialogUsable
    /\ ~TypeSelectDisabled(draft)
    /\ Becomes(setType(EditorState, value))
    /\ UNCHANGED <<optionEdits, dispatchVars, guardVars>>

SetName ==
  \E value \in NameInputs :
    /\ DialogUsable
    /\ ~NameInputDisabled(draft)
    /\ Becomes(setName(EditorState, value))
    /\ UNCHANGED <<optionEdits, dispatchVars, guardVars>>

SetLabel ==
  \E value \in LabelInputs :
    /\ DialogUsable
    /\ Becomes(setLabel(EditorState, value))
    /\ UNCHANGED <<optionEdits, dispatchVars, guardVars>>

SetRequired ==
  \E val \in RequiredInputs :
    /\ DialogUsable
    /\ ~RequiredToggleDisabled(draft)
    /\ Becomes(setRequired(EditorState, val))
    /\ UNCHANGED <<optionEdits, dispatchVars, guardVars>>

OptionLabelChange ==
  \E index \in 0..(Len(ShownOptions(draft.options)) - 1),
     text \in OptionLabelInputs :
    /\ DialogUsable
    /\ OptionsEditorShown(draft)
    /\ Becomes(onLabelChange(EditorState, index, text))
    /\ optionEdits < MaxOptionEdits
    /\ optionEdits' = optionEdits + 1
    /\ UNCHANGED <<dispatchVars, guardVars>>

OptionDelete ==
  \E index \in 0..(Len(ShownOptions(draft.options)) - 1) :
    /\ DialogUsable
    /\ OptionsEditorShown(draft)
    /\ OptionDeleteShown(ShownOptions(draft.options))
    /\ Becomes(onOptionDelete(EditorState, index))
    /\ optionEdits < MaxOptionEdits
    /\ optionEdits' = optionEdits + 1
    /\ UNCHANGED <<dispatchVars, guardVars>>

OptionAdd ==
  /\ DialogUsable
  /\ OptionsEditorShown(draft)
  /\ Len(ShownOptions(draft.options)) < MaxOptions
  /\ Becomes(onOptionAdd(EditorState))
  /\ optionEdits < MaxOptionEdits
  /\ optionEdits' = optionEdits + 1
  /\ UNCHANGED <<dispatchVars, guardVars>>

SubmitDialog ==
  /\ DialogUsable
  /\ RequiredInputsFilled(draft)
  /\ Becomes(handleSubmit(EditorState, draft))
  /\ UNCHANGED <<optionEdits, dispatchVars, guardVars>>

\* Cancel, Escape or a click outside: the Dialog reports onOpenChange(false).
CloseDialog ==
  /\ DialogUsable
  /\ Becomes(onOpenChange(EditorState, FALSE))
  /\ UNCHANGED <<optionEdits, dispatchVars, guardVars>>

Init ==
  /\ fields \in InitialCollections
  /\ fieldDialog = [isOpen |-> FALSE, fieldIndex |-> -1]
  /\ draft = EmptyDraft
  /\ sharedWith = 0
  /\ crashed = FALSE
  /\ optionEdits = 0
  /\ IdleDispatch
  /\ IdleGuard

Next ==
  \/ AddField
  \/ EditField
  \/ RemoveField
  \/ ToggleHidden
  \/ SwapUp
  \/ SwapDown
  \/ SetType
  \/ SetName
  \/ SetLabel
  \/ SetRequired
  \/ OptionLabelChange
  \/ OptionDelete
  \/ OptionAdd
  \/ SubmitDialog
  \/ CloseDialog

Spec == Init /\ [][Next]_vars

(***************************************************************************)
(* Properties of the editor.                                               *)
(***************************************************************************)
\* The entry of flds with key id, as a set (empty when there is none).
WithId(flds, id) == {flds[j] : j \in {k \in 1..Len(flds) : flds[k].id = id}}

\* C1 (as claimed): no step of the editor removes an entry whose editable is
\* "system", toggles its hidden flag, or changes its type or its name: after
\* every step the entry is still in the collection with the same name, type
\* and hidden flag.
C1_SystemFieldsProtected ==
  [][\A i \in 1..Len(fields) :
       fields[i].editable = "system" =>
         \E f \in WithId(fields', fields[i].id) :
           /\ f.name = fields[i].name
           /\ f.type = fields[i].type
           /\ f.hidden = fields[i].hidden
           /\ f.editable = "system"]_vars

\* C2: no step changes the editability class of an entry that is "system" or
\* "system-but-optional", and an entry that is "user" after a step either was
\* "user" before it or is the entry a create-mode submit appended.
C2_EditabilityNeverEscalates ==
  [][/\ \A i \in 1..Len(fields) :
          fields[i].editable \in {"system", "system-but-optional"} =>
            \A f \in WithId(fields', fields[i].id) :
              f.editable = fields[i].editable
     /\ \A j \in 1..Len(fields') :
          fields'[j].editable = "user" =>
            \/ \E f \in WithId(fields, fields'[j].id) : f.editable = "user"
            \/ /\ fieldDialog.isOpen
               /\ fieldDialog.fieldIndex = -1
               /\ j = Len(fields) + 1
               /\ Len(fields') = Len(fields) + 1]_vars

\* C2 witness: a system-but-optional entry was edited in the dialog and
\* submitted (its required flag is no longer the seeded FALSE), and an entry
\* appended in create mode is "user".
C2_Witness ==
  /\ \E i \in 1..Len(fields) :
       /\ fields[i].editable = "system-but-optional"
       /\ fields[i].required = Just(TRUE)
  /\ \E j \in Added(fields) : fields[j].editable = "user"

\* C3 (as claimed): no two entries of the collection have the same name.
C3_NamesUnique ==
  \A i, j \in 1..Len(fields) : i # j => fields[i].name # fields[j].name

\* C4: a create-mode submit appends exactly one entry at the end: the draft
\* with sources set to the single user source carrying the draft's required
\* flag and editable set to "user" when the draft leaves it unset; the
\* entries before it are unchanged, and the dialog ends closed with no index.
C4_CreateAppends ==
  [][(SubmitDialog /\ fieldDialog.fieldIndex = -1) =>
       /\ Len(fields') = Len(fields) + 1
       /\ SubSeq(fields', 1, Len(fields)) = fields
       /\ LET e == fields'[Len(fields')]
          IN /\ e.sources = Just(<< [label |-> "User", type |-> "user",
                                     id |-> "user",
                                     fieldRequired |-> draft.required] >>)
             /\ draft.editable = Undefined => e.editable = "user"
             /\ e.name = draft.name
             /\ e.label = draft.label
             /\ e.type = draft.type
             /\ e.required = draft.required
             /\ e.options = draft.options
             /\ e.hidden = draft.hidden
       /\ fieldDialog' = [isOpen |-> FALSE, fieldIndex |-> -1]]_vars

\* C4 witness: the dialog is closed and the last entry is one a create-mode
\* submit appended after the two seeded entries, with a required flag chosen.
C4_Witness ==
  /\ ~fieldDialog.isOpen
  /\ Len(fields) = 3
  /\ fields[3].editable = "user"
  /\ fields[3].sources = Just(<<UserSource(Just(TRUE))>>)
  /\ fields[1].editable = "system"
  /\ fields[2].editable = "user-readonly"

JsPrimitive(t) == [t |-> t, elems |-> <<>>, props |-> {}]
JsArray(elems) == [t |-> "array", elems |-> elems, props |-> {}]
JsObject(props) == [t |-> "object", elems |-> <<>>, props |-> props]
JsUndefined == JsPrimitive("undefined")

\* typeof val
typeof(val) ==
  IF val.t \in {"array", "object", "null"} THEN "object" ELSE val.t

\* val instanceof Array
instanceofArray(val) == val.t = "array"

\* "key" in val, for an object val
HasKey(val, key) == \E pr \in val.props : pr[1] = key

\* Components[fieldType].propsType.  Components.tsx is not among the source
\* files: the table is the one of the specification (section 4.3).
Components ==
  [k \in FieldKinds |->
     [propsType |->
        CASE k \in {"name", "email", "phone", "text", "number", "textarea"}
               -> "text"
          [] k = "boolean" -> "boolean"
          [] k = "multiemail" -> "textList"
          [] k \in {"select", "radio"} -> "select"
          [] k \in {"multiselect", "checkbox"} -> "multiselect"
          [] k = "radioInput" -> "objectiveWithInput"]]

\* The propsType values isValueOfPropsType knows (525-542); it throws
\* "Unknown propsType" for any other (543).
KnownPropsTypes ==
  {"text", "boolean", "textList", "select", "multiselect",
   "objectiveWithInput"}

EveryString(val) == \A i \in 1..Len(val.elems) : val.elems[i] = "string"

\* isValueOfPropsType (524-544); "throws" stands for the final throw.
isValueOfPropsType(val, propsType) ==
  CASE propsType = "text" -> typeof(val) = "string"
    [] propsType = "boolean" -> typeof(val) = "boolean"
    [] propsType = "textList" -> instanceofArray(val) /\ EveryString(val)
    [] propsType = "select" -> typeof(val) = "string"
    [] propsType = "multiselect" -> instanceofArray(val) /\ EveryString(val)
    [] propsType = "objectiveWithInput" ->
         IF typeof(val) = "object" /\ val.t # "null"
         THEN HasKey(val, "value")
         ELSE FALSE
    [] OTHER -> FALSE  \* never taken: see ComponentForField

\* !field.options (599, 617, 634): an array, even the empty one, is truthy.
OptionsMissing(field) == ~IsDefined(field.options)

\* What a call of ComponentForField does: it throws one of its errors,
\* returns a component, or returns null.
ComponentForField(field, value) ==
  LET propsType == Components[field.type].propsType IN
  IF value # JsUndefined /\ propsType \notin KnownPropsTypes
    THEN "throw: unknown propsType"
  ELSE IF value # JsUndefined /\ ~isValueOfPropsType(value, propsType)
    THEN "throw: value is not valid for type"
  ELSE IF propsType \in {"text", "boolean", "textList"}
    THEN "component"
  ELSE IF propsType \in {"select", "multiselect"}
    THEN IF OptionsMissing(field)
         THEN "throw: options is not defined"
         ELSE "component"
  ELSE IF propsType = "objectiveWithInput"
    THEN IF OptionsMissing(field)
           THEN "throw: options is not defined"
         ELSE IF ~IsDefined(field.optionsInputs)
           THEN "throw: optionsInputs is not defined"
         ELSE IF Len(field.options[1]) # 0
           THEN "component"
         ELSE "null"
  ELSE "throw: no valid propsType"

IsFatal(out) ==
  out \in {"throw: unknown propsType",
           "throw: value is not valid for type",
           "throw: options is not defined",
           "throw: optionsInputs is not defined",
           "throw: no valid propsType"}

\* The fields and values the dispatcher is called with.
SomeOption == Option(<<"a">>, <<"a">>)

DispatchFields ==
  [type : FieldKinds,
   name : {"q1"},
   options : {Nothing, Just(<<>>), Just(<<SomeOption>>)},
   optionsInputs : {Nothing, Just("inputs")}]

DispatchValues ==
  { JsUndefined, JsPrimitive("null"), JsPrimitive("string"),
    JsPrimitive("number"), JsPrimitive("boolean"),
    JsArray(<<>>), JsArray(<<"string">>), JsArray(<<"string", "number">>),
    JsObject({}),
    JsObject({<<"value", "string">>, <<"optionValue", "string">>}),
    JsObject({<<"value", "number">>, <<"optionValue", "string">>}),
    JsObject({<<"value", "string">>}),
    JsObject({<<"optionValue", "string">>}) }

IdleEditor ==
  /\ fields = <<>>
  /\ fieldDialog = [isOpen |-> FALSE, fieldIndex |-> -1]
  /\ draft = EmptyDraft
  /\ sharedWith = 0
  /\ crashed = FALSE
  /\ optionEdits = 0

InitDispatch ==
  /\ dField \in {Just(f) : f \in DispatchFields}
  /\ dValue \in {Just(v) : v \in DispatchValues}
  /\ dOut = "none"
  /\ IdleEditor
  /\ IdleGuard

\* One render of <ComponentForField field value />.
Render ==
  /\ dOut = "none"
  /\ dOut' = ComponentForField(dField[1], dValue[1])
  /\ UNCHANGED <<dField, dValue, editorVars, guardVars>>

NextDispatch == Render

SpecDispatch == InitDispatch /\ [][NextDispatch]_vars

\* The value shapes of the specification's table (section 4.3).
HasShape(val, propsType) ==
  CASE propsType \in {"text", "select"} -> val.t = "string"
    [] propsType = "boolean" -> val.t = "boolean"
    [] propsType \in {"textList", "multiselect"} ->
         val.t = "array" /\ EveryString(val)
    [] propsType = "objectiveWithInput" ->
         /\ val.t = "object"
         /\ <<"value", "string">> \in val.props
         /\ <<"optionValue", "string">> \in val.props

Rendered == dOut # "none"
DPropsType == Components[dField[1].type].propsType
NeedsOptionsSelect ==
  /\ FieldTypes[dField[1].type].needsOptions
  /\ DPropsType \in {"select", "multiselect"}
OptionsNonEmpty ==
  IsDefined(dField[1].options) /\ Len(dField[1].options[1]) >= 1

\* C6 (as claimed): a field whose kind needs options and resolves to select
\* or multiselect is rejected fatally whenever its options are not a
\* non-empty list, and a component is rendered only for a non-empty list.
C6_FatalWithoutNonEmptyOptions ==
  (Rendered /\ NeedsOptionsSelect) =>
    /\ ~OptionsNonEmpty => IsFatal(dOut)
    /\ dOut = "component" => OptionsNonEmpty

\* C7 (as claimed): a supplied value that does not have the shape of the
\* field's propsType is rejected fatally, and an absent value raises no
\* shape error.
C7_ValueShapeChecked ==
  Rendered =>
    /\ (dValue[1] # JsUndefined /\ ~HasShape(dValue[1], DPropsType))
         => IsFatal(dOut)
    /\ dValue[1] = JsUndefined
         => dOut # "throw: value is not valid for type"

(***************************************************************************)
(* The request guard chain (trpc.ts).                                      *)
(*                                                                         *)
(* A request r carries the procedure it reached, its context (user,        *)
(* session), its raw input, the position pc in the procedure's middleware  *)
(* chain, its outcome and the stage that rejected it.                      *)
(***************************************************************************)
UserIds == {1, 2}
TeamIds == {1, 2}

Contexts ==
  [user : {Nothing} \cup {Just([id |-> u, role |-> ro]) :
                            u \in UserIds, ro \in {"USER", "ADMIN"}},
   session : {Nothing, Just("session")}]

\* Raw inputs: no input at all, or an object whose teamId is absent, a
\* number, or a string (a sequence of characters).
JsNumber(n) == [t |-> "number", n |-> n, s |-> <<>>]
JsString(str) == [t |-> "string", n |-> 0, s |-> str]

RawInputs ==
  { [isObject |-> FALSE, teamId |-> Nothing],
    [isObject |-> TRUE, teamId |-> Nothing],
    [isObject |-> TRUE, teamId |-> Just(JsNumber(1))],
    [isObject |-> TRUE, teamId |-> Just(JsNumber(2))],
    [isObject |-> TRUE, teamId |-> Just(JsString(<<"1">>))],
    [isObject |-> TRUE, teamId |-> Just(JsString(<<"2">>))],
    [isObject |-> TRUE, teamId |-> Just(JsString(<<"x">>))] }

MembershipTables ==
  { {},
    {[userId |-> 1, teamId |-> 1]},
    {[userId |-> 1, teamId |-> 1], [userId |-> 2, teamId |-> 2]} }

Digits == {"0", "1", "2", "3", "4", "5", "6", "7", "8", "9"}
DigitValue(c) ==
  CASE c = "0" -> 0 [] c = "1" -> 1 [] c = "2" -> 2 [] c = "3" -> 3
    [] c = "4" -> 4 [] c = "5" -> 5 [] c = "6" -> 6 [] c = "7" -> 7
    [] c = "8" -> 8 [] c = "9" -> 9

RECURSIVE DecimalValue(_)
DecimalValue(str) ==
  IF str = <<>> THEN 0
  ELSE 10 * DecimalValue(SubSeq(str, 1, Len(str) - 1))
       + DigitValue(str[Len(str)])

\* Number(v) for a number or a string of the inputs: Nothing stands for NaN.
\* The empty string converts to 0.
ToNumber(v) ==
  IF v.t = "number" THEN Just(v.n)
  ELSE IF \A i \in 1..Len(v.s) : v.s[i] \in Digits
       THEN Just(DecimalValue(v.s))
       ELSE Nothing

\* UserBelongsToTeamInput.safeParse(rawInput) (71-73, 76): an object with
\* teamId: z.coerce.number().optional().  z.number() rejects NaN.
safeParse(rawInput) ==
  IF ~rawInput.isObject
    THEN [success |-> FALSE, teamId |-> Nothing]
  ELSE IF ~IsDefined(rawInput.teamId)
    THEN [success |-> TRUE, teamId |-> Nothing]
  ELSE IF IsDefined(ToNumber(rawInput.teamId[1]))
    THEN [success |-> TRUE, teamId |-> ToNumber(rawInput.teamId[1])]
  ELSE [success |-> FALSE, teamId |-> Nothing]

\* prisma.membership.findFirst({where: {userId, teamId}}) (85-90): the rows
\* that match; a where key whose value is undefined does not filter.
findFirst(table, userId, teamId) ==
  {m \in table :
     /\ m.userId = userId
     /\ IsDefined(teamId) => m.teamId = teamId[1]}

\* The middleware chains of the exported procedures (102-114).
\* isAdminMiddleware is isAuthedMiddleware piped into the role check (36).
isAdminMiddleware == <<"isAuthed", "isAdmin">>

Procedures ==
  [publicProcedure |-> <<"perf">>,
   authedProcedure |-> <<"perf", "isAuthed">>,
   authedRateLimitedProcedure |-> <<"perf", "isAuthed", "isRateLimitedByUserId">>,
   authedAdminProcedure |-> <<"perf">> \o isAdminMiddleware,
   userBelongsToTeamProcedure |-> <<"perf", "isAuthed", "userBelongsToTeam">>]

ProcedureNames == DOMAIN Procedures

Chain(r) == Procedures[r.proc]

\* The stage at position pc, or "handler" after the last one.
StageAt(r) ==
  IF r.pc <= Len(Chain(r)) THEN Chain(r)[r.pc] ELSE "handler"

Running(r) == r.outcome = "running"

\* Faulty variant, for mutation checking: the error is recorded but the
\* chain goes on.
throwAndGoOn(r, stage, code) ==
  [r EXCEPT !.error = code, !.rejectedBy = stage, !.pc = r.pc + 1]

\* throw new TRPCError({code}): the request ends with the error.
throw(r, stage, code) ==
  [r EXCEPT !.error = code, !.rejectedBy = stage, !.outcome = code]

\* return next(...)
next(r) == [r EXCEPT !.pc = r.pc + 1]

\* Faulty variant, for mutation checking: only the user is checked.
isAuthedUserOnly(r) ==
  IF ~IsDefined(r.ctx.user)
  THEN throw(r, "isAuthed", "UNAUTHORIZED")
  ELSE next(r)

\* isAuthedMiddleware (23-34)
isAuthedMiddleware(r) ==
  IF ~IsDefined(r.ctx.user) \/ ~IsDefined(r.ctx.session)
  THEN throw(r, "isAuthed", "UNAUTHORIZED")
  ELSE next(r)

\* The role check of isAdminMiddleware (36-43)
isAdminCheck(r) ==
  IF r.ctx.user[1].role # "ADMIN"
  THEN throw(r, "isAdmin", "UNAUTHORIZED")
  ELSE next(r)

\* rateLimit({intervalInMs}).check(limit, key) (56): the limiter built for
\* the request consults the counter store that is shared across requests;
\* the store counts the call and reports whether the count exceeds the limit.
rateLimitCheck(counts, limit, key) ==
  [counts |-> [counts EXCEPT ![key] = counts[key] + 1],
   isRateLimited |-> counts[key] + 1 > limit]

\* Faulty variant, for mutation checking: the limiter's answer is not looked
\* at.
isRateLimitedUnchecked(r, isRateLimited) ==
  IF ~IsDefined(r.ctx.user)
    THEN throw(r, "isRateLimitedByUserId", "UNAUTHORIZED")
  ELSE next(r)

\* isRateLimitedByUserIdMiddleware (49-69), after the counter was consulted.
isRateLimitedByUserIdMiddleware(r, isRateLimited) ==
  IF ~IsDefined(r.ctx.user)
    THEN throw(r, "isRateLimitedByUserId", "UNAUTHORIZED")
  ELSE IF isRateLimited
    THEN throw(r, "isRateLimitedByUserId", "TOO_MANY_REQUESTS")
  ELSE next(r)

\* userBelongsToTeamMiddleware up to the query (75-85): the request goes
\* on to the query when the context and the input pass.
userBelongsToTeamMiddleware(r) ==
  LET parse == safeParse(r.rawInput) IN
  IF ~IsDefined(r.ctx.user) \/ ~IsDefined(r.ctx.session)
    THEN throw(r, "userBelongsToTeam", "UNAUTHORIZED")
  ELSE IF ~parse.success
    THEN throw(r, "userBelongsToTeam", "BAD_REQUEST")
  ELSE r

\* userBelongsToTeamMiddleware from the query's answer on (85-96); team is
\* the set of rows that matched, empty for null.
userBelongsToTeamAnswered(r, team) ==
  IF team = {}
    THEN throw(r, "userBelongsToTeam", "UNAUTHORIZED")
  ELSE next(r)

NewRequest(proc, ctx, rawInput) ==
  [proc |-> proc, ctx |-> ctx, rawInput |-> rawInput, pc |-> 1,
   outcome |-> "running", error |-> "none", rejectedBy |-> "none",
   measured |-> FALSE]

(***************************************************************************)
(* The guard chain's actions.  A request arrives and its stages run one at *)
(* a time from position pc, on one thread.  A request leaves the thread at *)
(* an await: at the membership query (85), and at perfMiddleware's         *)
(* `await next()` (17) once the rest of its chain has ended, so its        *)
(* measurement (18-20) runs later, after whatever the thread took up in    *)
(* between.  perfMiddleware (15-21) marks the start, awaits the rest of    *)
(* the chain and measures when it has ended.                               *)
(***************************************************************************)
\* No request is running its stages on the thread.
ThreadFree == IF req = Nothing THEN TRUE ELSE ~Running(req[1])

\* The requests off the thread once the thread takes up something else: a
\* request whose chain has ended and that still waits at `await next()` (17)
\* joins them, a measured one is done.
Yielded ==
  IF req = Nothing THEN pending
  ELSE IF ~Running(req[1]) /\ ~req[1].measured
       THEN Append(pending, [r |-> req[1], trace |-> trace])
       ELSE pending

\* The sequence without its i-th element.
Without(seq, i) ==
  [k \in 1..(Len(seq) - 1) |-> IF k < i THEN seq[k] ELSE seq[k + 1]]

\* Only the team-scoped procedure reads the raw input.
InputsOf(proc) ==
  IF proc = "userBelongsToTeamProcedure" THEN RawInputs
  ELSE {[isObject |-> FALSE, teamId |-> Nothing]}

Arrive ==
  \E proc \in ProcedureNames, ctx \in Contexts :
    \E rawInput \in InputsOf(proc) :
      /\ ThreadFree
      /\ (proc = "authedRateLimitedProcedure" /\ IsDefined(ctx.user))
           => Len(rlSeen[ctx.user[1].id]) <= RlLimit
      /\ Len(Yielded) <= MaxPending
      /\ proc = "userBelongsToTeamProcedure" => Len(Yielded) < MaxPending
      /\ req' = Just(NewRequest(proc, ctx, rawInput))
      /\ trace' = <<>>
      /\ pending' = Yielded
      /\ UNCHANGED <<rlCount, rlSeen, memberships,
                     editorVars, dispatchVars>>

StageReady(stage) ==
  /\ req # Nothing
  /\ Running(req[1])
  /\ StageAt(req[1]) = stage

PerfStart ==
  /\ StageReady("perf")
  /\ req' = Just(next(req[1]))
  /\ trace' = Append(trace, "perf:Start")
  /\ UNCHANGED <<pending, rlCount, rlSeen, memberships,
                 editorVars, dispatchVars>>

IsAuthed ==
  /\ StageReady("isAuthed")
  /\ req' = Just(isAuthedMiddleware(req[1]))
  /\ trace' = Append(trace, "isAuthed")
  /\ UNCHANGED <<pending, rlCount, rlSeen, memberships,
                 editorVars, dispatchVars>>

IsAdmin ==
  /\ StageReady("isAdmin")
  /\ req' = Just(isAdminCheck(req[1]))
  /\ trace' = Append(trace, "isAdmin")
  /\ UNCHANGED <<pending, rlCount, rlSeen, memberships,
                 editorVars, dispatchVars>>

IsRateLimitedByUserId ==
  /\ StageReady("isRateLimitedByUserId")
  /\ IF IsDefined(req[1].ctx.user)
     THEN LET key == req[1].ctx.user[1].id
              res == rateLimitCheck(rlCount, RlLimit, key)
          IN /\ rlCount' = res.counts
             /\ req' = Just(isRateLimitedByUserIdMiddleware(
                              req[1], res.isRateLimited))
     ELSE /\ rlCount' = rlCount
          /\ req' = Just(isRateLimitedByUserIdMiddleware(req[1], FALSE))
  /\ rlSeen' = IF IsDefined(req[1].ctx.user)
                THEN [rlSeen EXCEPT ![req[1].ctx.user[1].id] =
                        Append(@, IF Running(req'[1]) THEN "passed"
                                  ELSE req'[1].error)]
                ELSE rlSeen
  /\ trace' = Append(trace, "isRateLimitedByUserId")
  /\ UNCHANGED <<pending, memberships, editorVars, dispatchVars>>

\* The team stage up to `await prisma.membership.findFirst(...)` (85): a
\* request that is not rejected waits for the answer and leaves the thread.
UserBelongsToTeam ==
  /\ StageReady("userBelongsToTeam")
  /\ LET r == userBelongsToTeamMiddleware(req[1])
         tr == Append(trace, "userBelongsToTeam")
     IN IF Running(r)
        THEN /\ pending' = Append(pending, [r |-> r, trace |-> tr])
             /\ req' = Nothing
             /\ trace' = <<>>
        ELSE /\ pending' = pending
             /\ req' = Just(r)
             /\ trace' = tr
  /\ UNCHANGED <<rlCount, rlSeen, memberships,
                 editorVars, dispatchVars>>

\* The query is answered from the table as it is then, and the request
\* that waited for it goes on.
UserBelongsToTeamAnswer ==
  \E i \in 1..Len(pending) :
    LET w == pending[i]
        parse == safeParse(w.r.rawInput)
        team == findFirst(memberships, w.r.ctx.user[1].id, parse.teamId)
    IN /\ ThreadFree
       /\ Running(w.r)
       /\ req' = Just(userBelongsToTeamAnswered(w.r, team))
       /\ trace' = w.trace
       /\ pending' = Without(Yielded, i)
       /\ UNCHANGED <<rlCount, rlSeen, memberships,
                      editorVars, dispatchVars>>

\* The procedure's resolver runs after the last middleware called next().
Handler ==
  /\ StageReady("handler")
  /\ req' = Just([req[1] EXCEPT !.outcome = "OK"])
  /\ trace' = Append(trace, "handler")
  /\ UNCHANGED <<pending, rlCount, rlSeen, memberships,
                 editorVars, dispatchVars>>

\* perfMiddleware after `await next()`: mark End and measure (18-20).  It
\* runs for the request that ended last, or for one that ended before the
\* thread took up another.
PerfEnd ==
  /\ \/ /\ req # Nothing
        /\ ~Running(req[1])
        /\ ~req[1].measured
        /\ req' = Just([req[1] EXCEPT !.measured = TRUE])
        /\ trace' = Append(trace, "perf:End")
        /\ pending' = pending
     \/ \E i \in 1..Len(pending) :
          /\ ThreadFree
          /\ ~Running(pending[i].r)
          /\ req' = Just([pending[i].r EXCEPT !.measured = TRUE])
          /\ trace' = Append(pending[i].trace, "perf:End")
          /\ pending' = Without(Yielded, i)
  /\ UNCHANGED <<rlCount, rlSeen, memberships, editorVars, dispatchVars>>

\* The rate limiter's interval elapses for a user: the count starts again.
IntervalElapses ==
  \E u \in UserIds :
    /\ Len(rlSeen[u]) > 0
    /\ rlCount' = [rlCount EXCEPT ![u] = 0]
    /\ rlSeen' = [rlSeen EXCEPT ![u] = <<>>]
    /\ UNCHANGED <<req, trace, pending, memberships,
                   editorVars, dispatchVars>>

\* Membership rows are added and deleted by other parts of the application.
MembershipsChange ==
  \E table \in MembershipTables :
    /\ table # memberships
    /\ memberships' = table
    /\ UNCHANGED <<req, trace, pending, rlCount, rlSeen,
                   editorVars, dispatchVars>>

InitGuard ==
  /\ req = Nothing
  /\ trace = <<>>
  /\ pending = <<>>
  /\ rlCount = [u \in UserIds |-> 0]
  /\ rlSeen = [u \in UserIds |-> <<>>]
  /\ memberships \in MembershipTables
  /\ IdleEditor
  /\ IdleDispatch

NextGuard ==
  \/ Arrive
  \/ PerfStart
  \/ IsAuthed
  \/ IsAdmin
  \/ IsRateLimitedByUserId
  \/ UserBelongsToTeam
  \/ UserBelongsToTeamAnswer
  \/ Handler
  \/ PerfEnd
  \/ IntervalElapses
  \/ MembershipsChange

SpecGuard == InitGuard /\ [][NextGuard]_vars

(***************************************************************************)
(* Properties of the guard chain.                                          *)
(***************************************************************************)
IsPrefix(a, b) == Len(a) <= Len(b) /\ SubSeq(b, 1, Len(a)) = a

\* The stages that ran, without the closing measurement.
Core(tr) ==
  IF tr # <<>> /\ tr[Len(tr)] = "perf:End"
  THEN SubSeq(tr, 1, Len(tr) - 1)
  ELSE tr

Ran(stage) == \E i \in 1..Len(trace) : trace[i] = stage

\* The stages each exported procedure declares after instrumentation.
DeclaredGuards(proc) ==
  CASE proc = "publicProcedure" -> <<>>
    [] proc = "authedProcedure" -> <<"isAuthed">>
    [] proc = "authedRateLimitedProcedure" ->
         <<"isAuthed", "isRateLimitedByUserId">>
    [] proc = "authedAdminProcedure" -> <<"isAuthed", "isAdmin">>
    [] proc = "userBelongsToTeamProcedure" ->
         <<"isAuthed", "userBelongsToTeam">>

\* C8: the stages of a request run one after another in declaration order
\* (instrumentation, authentication, then the role, team or rate-limit
\* stage, then the handler); once a stage has rejected, that stage is the
\* last to have run and the handler has not run; the handler has run only
\* when every declared stage ran before it without an error.
C8_StagesSequentialAndAbort ==
  req # Nothing =>
    LET r == req[1]
        declared == <<"perf:Start">> \o DeclaredGuards(r.proc) \o <<"handler">>
        core == Core(trace)
    IN /\ IsPrefix(core, declared)
       /\ r.error # "none" =>
            /\ ~Ran("handler")
            /\ core # <<>>
            /\ core[Len(core)] = r.rejectedBy
            /\ r.outcome = r.error
       /\ Ran("handler") => core = declared /\ r.error = "none"

\* C8 witness: a request to the admin procedure passed authentication, was
\* rejected by the role stage, and the chain has ended.
C8_Witness ==
  /\ req # Nothing
  /\ req[1].proc = "authedAdminProcedure"
  /\ req[1].rejectedBy = "isAdmin"
  /\ req[1].measured
  /\ trace = <<"perf:Start", "isAuthed", "isAdmin", "perf:End">>

Authenticated(r) == IsDefined(r.ctx.user) /\ IsDefined(r.ctx.session)

\* C9: once a request has ended: on the authenticated procedure the handler
\* ran exactly when the context carries a user and a session, and otherwise
\* the request was rejected UNAUTHORIZED; on the admin procedure the handler
\* ran exactly when in addition the user's role is ADMIN, and otherwise the
\* request was rejected UNAUTHORIZED; on the public procedure the handler
\* ran.
C9_AuthDecidesHandler ==
  (req # Nothing /\ ~Running(req[1])) =>
    LET r == req[1]
        admin == Authenticated(r) /\ r.ctx.user[1].role = "ADMIN"
    IN /\ r.proc = "authedProcedure" =>
            /\ Ran("handler") <=> Authenticated(r)
            /\ ~Authenticated(r) => r.outcome = "UNAUTHORIZED"
       /\ r.proc = "authedAdminProcedure" =>
            /\ Ran("handler") <=> admin
            /\ ~admin => r.outcome = "UNAUTHORIZED"
       /\ r.proc = "publicProcedure" => Ran("handler")

\* C9 witness: an authenticated user who is not an admin was rejected
\* UNAUTHORIZED on the admin procedure.
C9_Witness ==
  /\ req # Nothing
  /\ req[1].proc = "authedAdminProcedure"
  /\ Authenticated(req[1])
  /\ req[1].ctx.user[1].role = "USER"
  /\ req[1].outcome = "UNAUTHORIZED"
  /\ ~Ran("handler")

\* A membership record links the request's user to the team its input names.
MemberOfNamedTeam(r) ==
  LET parse == safeParse(r.rawInput) IN
  /\ parse.success
  /\ IsDefined(parse.teamId)
  /\ \E m \in memberships :
       m.userId = r.ctx.user[1].id /\ m.teamId = parse.teamId[1]

\* C10 (as claimed): an authenticated request to the team-scoped procedure
\* is rejected BAD_REQUEST when its raw input fails the schema; when the
\* membership query is answered, the request is rejected UNAUTHORIZED if no
\* membership record links the user to the team the input names, and it
\* goes on to its handler only when such a record exists.
C10_TeamMembershipDecides ==
  [][/\ (/\ UserBelongsToTeam
         /\ Authenticated(req[1])
         /\ ~safeParse(req[1].rawInput).success)
          => (req' # Nothing /\ req'[1].outcome = "BAD_REQUEST")
     /\ UserBelongsToTeamAnswer =>
          /\ ~MemberOfNamedTeam(req'[1]) => req'[1].outcome = "UNAUTHORIZED"
          /\ Running(req'[1]) => MemberOfNamedTeam(req'[1])]_vars

\* C11: within one interval, the rate-limit stage passes each
\* of a user's first RlLimit requests and rejects the next one
\* TOO_MANY_REQUESTS; what it does with a user's i-th request depends on that
\* user's count alone, so another user's requests never cause a rejection.
C11_RateLimitPerUser ==
  \A u \in DOMAIN rlSeen :
    \A i \in 1..Len(rlSeen[u]) :
      rlSeen[u][i] = IF i <= RlLimit THEN "passed" ELSE "TOO_MANY_REQUESTS"

\* User 1 was rejected on request RlLimit + 1 of the interval while user 2
\* has requests of the same interval behind them.
C11_Witness ==
  /\ DOMAIN rlSeen = UserIds
  /\ Len(rlSeen[1]) = RlLimit + 1
  /\ rlSeen[1][RlLimit + 1] = "TOO_MANY_REQUESTS"
  /\ Len(rlSeen[2]) >= 1
  /\ rlSeen[2][Len(rlSeen[2])] = "passed"

(***************************************************************************)
(* Further properties of the editor.                                       *)
(***************************************************************************)
\* C12: for every index i with i and i+1 inside the collection, swap(i, i+1)
\* exchanges the entries at i and i+1 and leaves the length and every other
\* position as they were, and a second swap(i, i+1) gives the collection
\* back in its original order.
C12_SwapInvolution ==
  \A i \in 0..(Len(fields) - 2) :
    LET once == swap(EditorState, i, i + 1)
        twice == swap(once, i, i + 1)
    IN /\ Len(once.fields) = Len(fields)
       /\ At(once.fields, i) = At(fields, i + 1)
       /\ At(once.fields, i + 1) = At(fields, i)
       /\ \A k \in 0..(Len(fields) - 1) :
            k \notin {i, i + 1} => At(once.fields, k) = At(fields, k)
       /\ twice.fields = fields

\* A swap has acted: the seeds stand in the reverse of the order they were
\* given in, in a collection of three where a third position was left alone.
C12_Witness ==
  /\ ~crashed
  /\ Len(fields) = 3
  /\ fields[1].id = 2
  /\ fields[2].id = 1
  /\ fields[3].id = 3

\* The value the options editor derives from a label (183).
Derived(option) == option.value = trim(toLowerCase(option.label))

\* The list the options editor last handed to onChange, if it did.
HandedToOnChange == IF IsDefined(draft.options) THEN draft.options[1] ELSE <<>>

\* C13 (as claimed): starting from an unset options list, every option of
\* the list handed to onChange has value equal to the lower-cased, trimmed
\* form of its label.
C13_ValueDerivedFromLabel ==
  \A i \in 1..Len(HandedToOnChange) : Derived(HandedToOnChange[i])

\* C14 (as claimed): the up and the down button of every row, the first and
\* the last included, call swap with two indices inside 0..length-1, so no
\* step of a reorder control is the fatal one of an index out of range.
C14_ReorderWithinRange ==
  [][(SwapUp \/ SwapDown) => ~crashed']_vars

\* C15 (as claimed): every entry of the collection whose kind needs options
\* (select, multiselect, checkbox, radio) has a defined, non-empty options
\* list, also when it was created without touching the options editor.
C15_CommittedOptionsPresent ==
  \A i \in 1..Len(fields) :
    (HasFieldType(fields[i].type) /\ FieldTypes[fields[i].type].needsOptions)
      => /\ IsDefined(fields[i].options)
         /\ Len(ShownOptions(fields[i].options)) >= 1

====
